---- MODULE Spec2Model ----
(***************************************************************************)
(* ggdu: a cached view of a remote folder tree.  The model covers the      *)
(* tree of Folder objects, the Aggregator (rebuild), the refresh engine    *)
(* (ensureData / getFiles), the snapshot (save / load) and the part of the *)
(* terminal front end that starts refreshes (startApp, explorer).          *)
(*                                                                         *)
(* Folder objects live in a heap: a sequence of records addressed by their *)
(* index (the Go pointer).  Handle 0 is the nil pointer, handle 1 is the   *)
(* root.  Every goroutine that runs ensureData has a call stack of frames. *)
(***************************************************************************)
EXTENDS Integers, Sequences, FiniteSets, TLC

\* ------------------------------------------------------------------ bounds
MaxNodes == 8      \* Folder objects the heap may hold
MaxRequests == 1   \* 'l' / 'x' key presses that start a refresh goroutine
MaxNow == 6        \* last value of the wall clock

\* ------------------------------------------------------- clock and cutoff
\* tooOld = process start - refreshDelay; time.Now() is never before start.
tooOld == 3
StartTime == 5

\* ------------------------------------------------------------ nil values
NilFolder == 0
Root == 1
NilMap == [nil |-> TRUE, kv |-> {}]
EmptyMap == [nil |-> FALSE, kv |-> {}]
MapPut(m, k, v) == [nil |-> FALSE, kv |-> {p \in m.kv : p[1] # k} \cup {<<k, v>>}]

\* A path is kept as its list of components; "" is <<>>, "/" is <<"/">>.
EmptyPath == << >>
RootPath == <<"/">>
\* filepath.Join drops empty elements
Join(p, name) == IF name = "" THEN p ELSE Append(p, name)

\* ------------------------------------------------------- parsing helpers
\* filepath.Ext over the names the remote uses
Ext(name) ==
  CASE name = "r.txt" -> ".txt"
    [] name = "m.bin" -> ".bin"
    [] OTHER -> ""

\* A size string is its list of space separated parts.  The numeric part is
\* one of a few literals; NumTenths gives ten times its value, IsInt tells
\* whether strconv.Atoi accepts it.
NumLits == {"0", "1", "2", "3", "1.5"}
NumTenths(s) ==
  CASE s = "0" -> 0
    [] s = "1" -> 10
    [] s = "2" -> 20
    [] s = "3" -> 30
    [] s = "1.5" -> 15
    [] OTHER -> 0
IsInt(s) == s \in {"0", "1", "2", "3"}
UnitFactor(u) ==
  CASE u \in {"b", "B"} -> 1
    [] u \in {"kb", "KB"} -> 1024
    [] u \in {"mb", "MB"} -> 1024 * 1024
    [] OTHER -> 0

\* parseSize: [ok, val]; ok = FALSE is the panic
parseSize(s) ==
  IF Len(s) = 1
    THEN IF IsInt(s[1]) THEN [ok |-> TRUE, val |-> NumTenths(s[1]) \div 10]
                        ELSE [ok |-> FALSE, val |-> 0]
  ELSE IF Len(s) # 2 THEN [ok |-> FALSE, val |-> 0]
  ELSE IF s[1] \notin NumLits THEN [ok |-> FALSE, val |-> 0]
  ELSE IF UnitFactor(s[2]) = 0 THEN [ok |-> FALSE, val |-> 0]
  ELSE [ok |-> TRUE, val |-> (NumTenths(s[1]) * UnitFactor(s[2])) \div 10]

\* parseDate over the timestamps the remote uses (seconds, scaled down)
parseDate(s) ==
  CASE s = "1970-01-01 00:00:01" -> [ok |-> TRUE, val |-> 1]
    [] s = "1970-01-01 00:00:02" -> [ok |-> TRUE, val |-> 2]
    [] OTHER -> [ok |-> FALSE, val |-> 0]

\* ------------------------------------------------------------ the Lister
gdriveListHeader == <<"Id", "Name", "Type", "Size", "Created">>

\* One output line of `gdrive files list`, split at the field separator.
\* The empty line (the output ends with a newline) is << >>.
Line(id, name, type, size) == <<id, name, type, size, "1970-01-01 00:00:01">>
BlankLine == << >>

\* The remote tree: the entries listed under each folder identifier.
RemoteSmall ==
  [id \in {"", "A", "B", "C"} |->
    CASE id = ""  -> << Line("A", "a", "folder", <<"0">>),
                        Line("r", "r.txt", "regular", <<"1">>),
                        Line("B", "b", "folder", <<"0">>), BlankLine >>
      [] id = "A" -> << Line("C", "c", "folder", <<"0">>),
                        Line("m", "m.bin", "regular", <<"2", "B">>), BlankLine >>
      [] id = "B" -> << Line("d", "doc", "document", <<"0">>),
                        Line("r2", "r.txt", "regular", <<"3">>), BlankLine >>
      [] OTHER    -> << Line("m2", "m.bin", "regular", <<"1.5", "KB">>),
                        Line("s", "lnk", "shortcut", <<"0">>), BlankLine >>]

RemoteWide ==
  [id \in {"", "A", "B", "C", "D", "E", "F", "G"} |->
    CASE id = ""  -> << Line("A", "a", "folder", <<"0">>), BlankLine >>
      [] id = "A" -> << Line("B", "b", "folder", <<"0">>),
                        Line("C", "c", "folder", <<"0">>), BlankLine >>
      [] id = "B" -> << Line("D", "d", "folder", <<"0">>), BlankLine >>
      [] id = "D" -> << Line("E", "e", "folder", <<"0">>), BlankLine >>
      [] id = "C" -> << Line("F", "f", "folder", <<"0">>),
                        Line("r", "r.txt", "regular", <<"2">>),
                        Line("G", "g", "folder", <<"0">>), BlankLine >>
      [] id = "F" -> << Line("m", "m.bin", "regular", <<"1">>), BlankLine >>
      [] OTHER    -> << BlankLine >>]

Remotes == {RemoteSmall, RemoteWide}

\* What sh() can hand to getFiles for one call: the listing, a listing with
\* an entry of a type gdrive added later, a listing with another header
\* line, or an error because the subprocess did not run or exited non-zero.
WithUnknownType(lines) ==
  IF Len(lines) <= 1 THEN <<Line("v", "v", "video", <<"0">>)>> \o lines
  ELSE <<lines[1], Line("v", "v", "video", <<"0">>)>> \o Tail(lines)

sh(rem, id) ==
  IF id \notin DOMAIN rem
    THEN {[err |-> TRUE, header |-> << >>, lines |-> << >>]}
    ELSE {[err |-> FALSE, header |-> gdriveListHeader, lines |-> rem[id]],
          [err |-> FALSE, header |-> gdriveListHeader, lines |-> WithUnknownType(rem[id])],
          [err |-> FALSE, header |-> <<"Id", "Name", "Size", "Created">>, lines |-> rem[id]],
          [err |-> TRUE, header |-> << >>, lines |-> << >>]}

\* ---------------------------------------------------------- Folder, File
Folder(id, name, date, lastUpdate, saveFn) ==
  [ID |-> id, Name |-> name, Folders |-> << >>, Files |-> << >>,
   Date |-> date, LastUpdate |-> lastUpdate,
   size |-> 0, known |-> 0, unknown |-> 0,
   folderIdx |-> NilMap, fileIdx |-> NilMap,
   path |-> EmptyPath, parent |-> NilFolder, save |-> saveFn, lastIdx |-> 0]

File(id, name, size, date) ==
  [ID |-> id, Name |-> name, Ext |-> Ext(name), Size |-> size, Date |-> date]

\* the values of a Folder's save field: nil, or the closure save(root)
NoSave == "nil"
SaveRoot == "save(root)"

\* --------------------------------------------------------- attach, rebuild
\* (variant: the back-reference is not set)
attachChild_NoParent(hp, f, child) ==
  [hp EXCEPT ![child].path = Join(hp[f].path, hp[f].Name)]
attachChild(hp, f, child) ==
  [hp EXCEPT ![child].parent = f,
             ![child].path = Join(hp[f].path, hp[f].Name)]

RECURSIVE SumSizes(_)
SumSizes(files) ==
  IF files = << >> THEN 0 ELSE Head(files).Size + SumSizes(Tail(files))

RECURSIVE rebuild(_, _), rebuildFolders(_, _, _)
\* the loop over f.Folders of rebuild, from index i on
rebuildFolders(hp, f, i) ==
  IF i > Len(hp[f].Folders) THEN hp
  ELSE LET folder == hp[f].Folders[i]
           a == rebuild(attachChild(hp, f, folder), folder)
           b == [a EXCEPT ![f].folderIdx = MapPut(@, a[folder].Name, folder),
                          ![f].size = @ + a[folder].size,
                          ![f].unknown = IF a[folder].LastUpdate < tooOld THEN @ + 1 ELSE @,
                          ![f].known = IF a[folder].LastUpdate < tooOld THEN @ ELSE @ + 1]
       IN  rebuildFolders(b, f, i + 1)

\* (variant: the size is not set back to 0)
rebuild_NoReset(hp, f) ==
  LET a == [hp EXCEPT ![f].folderIdx = EmptyMap,
                      ![f].fileIdx = EmptyMap, ![f].unknown = 0, ![f].known = 0]
      b == rebuildFolders(a, f, 1)
  IN  [b EXCEPT ![f].size = @ + SumSizes(b[f].Files)]
rebuild(hp, f) ==
  LET a == [hp EXCEPT ![f].size = 0, ![f].folderIdx = EmptyMap,
                      ![f].fileIdx = EmptyMap, ![f].unknown = 0, ![f].known = 0]
      b == rebuildFolders(a, f, 1)
  IN  [b EXCEPT ![f].size = @ + SumSizes(b[f].Files)]

\* ------------------------------------------------------------ save, load
\* json.Marshal(root): the exported fields, children nested
RECURSIVE Marshal(_, _)
\* (variant: LastUpdate is not written)
Marshal_NoLastUpdate(hp, f) ==
  [ID |-> hp[f].ID, Name |-> hp[f].Name,
   Folders |-> [i \in 1..Len(hp[f].Folders) |-> Marshal(hp, hp[f].Folders[i])],
   Files |-> hp[f].Files,
   Date |-> hp[f].Date, LastUpdate |-> 0]
Marshal(hp, f) ==
  [ID |-> hp[f].ID, Name |-> hp[f].Name,
   Folders |-> [i \in 1..Len(hp[f].Folders) |-> Marshal(hp, hp[f].Folders[i])],
   Files |-> hp[f].Files,
   Date |-> hp[f].Date, LastUpdate |-> hp[f].LastUpdate]

NoFile == [exists |-> FALSE]
SnapshotOf(hp) == [exists |-> TRUE, doc |-> Marshal(hp, Root)]

\* json.Unmarshal: allocates one Folder per document node, parent first
RECURSIVE Unmarshal(_, _), UnmarshalFolders(_, _, _, _)
\* returns the heap after the document doc was stored as a new last object
Unmarshal(hp, doc) ==
  LET me == Len(hp) + 1
      a == Append(hp, [Folder(doc.ID, doc.Name, doc.Date, doc.LastUpdate, NoSave)
                         EXCEPT !.Files = doc.Files])
  IN  UnmarshalFolders(a, me, doc.Folders, 1)
UnmarshalFolders(hp, f, docs, i) ==
  IF i > Len(docs) THEN hp
  ELSE LET child == Len(hp) + 1
           a == Unmarshal(hp, docs[i])
       IN  UnmarshalFolders([a EXCEPT ![f].Folders = Append(@, child)], f, docs, i + 1)

\* load: unmarshal, give every folder the save closure, set the root's path
\* and rebuild
load(doc) ==
  LET a == Unmarshal(<< >>, doc)
      b == [h \in 1..Len(a) |-> [a[h] EXCEPT !.save = SaveRoot]]
      c == [b EXCEPT ![Root].path = RootPath]
  IN  rebuild(c, Root)

\* ---------------------------------------------------------------- getFiles
\* The loop over the output lines, from line i on.  The result keeps the heap
\* as the loop left it: a panic in the middle does not undo earlier appends.
RECURSIVE getFilesLines(_, _, _, _)
\* (variant: a new folder does not get the save function of its parent)
getFilesLines_NoSave(hp, f, lines, i) ==
  IF i > Len(lines) THEN [res |-> "ok", hp |-> hp]
  ELSE LET parts == lines[i] IN
    IF parts = BlankLine THEN getFilesLines(hp, f, lines, i + 1)
    ELSE IF parts[3] = "regular" THEN
      IF ~parseSize(parts[4]).ok \/ ~parseDate(parts[5]).ok
        THEN [res |-> "panic", hp |-> hp]
        ELSE getFilesLines(
               [hp EXCEPT ![f].Files = Append(@, File(parts[1], parts[2],
                                 parseSize(parts[4]).val, parseDate(parts[5]).val))],
               f, lines, i + 1)
    ELSE IF parts[3] = "folder" THEN
      IF ~parseDate(parts[5]).ok
        THEN [res |-> "panic", hp |-> hp]
        ELSE getFilesLines(
               [Append(hp, Folder(parts[1], parts[2], parseDate(parts[5]).val, 0, NoSave))
                  EXCEPT ![f].Folders = Append(@, Len(hp) + 1)],
               f, lines, i + 1)
    ELSE IF parts[3] \in {"document", "shortcut"} THEN getFilesLines(hp, f, lines, i + 1)
    ELSE [res |-> "panic", hp |-> hp]
getFilesLines(hp, f, lines, i) ==
  IF i > Len(lines) THEN [res |-> "ok", hp |-> hp]
  ELSE LET parts == lines[i] IN
    IF parts = BlankLine THEN getFilesLines(hp, f, lines, i + 1)
    ELSE IF parts[3] = "regular" THEN
      IF ~parseSize(parts[4]).ok \/ ~parseDate(parts[5]).ok
        THEN [res |-> "panic", hp |-> hp]
        ELSE getFilesLines(
               [hp EXCEPT ![f].Files = Append(@, File(parts[1], parts[2],
                                 parseSize(parts[4]).val, parseDate(parts[5]).val))],
               f, lines, i + 1)
    ELSE IF parts[3] = "folder" THEN
      IF ~parseDate(parts[5]).ok
        THEN [res |-> "panic", hp |-> hp]
        ELSE getFilesLines(
               [Append(hp, Folder(parts[1], parts[2], parseDate(parts[5]).val, 0, hp[f].save))
                  EXCEPT ![f].Folders = Append(@, Len(hp) + 1)],
               f, lines, i + 1)
    ELSE IF parts[3] \in {"document", "shortcut"} THEN getFilesLines(hp, f, lines, i + 1)
    ELSE [res |-> "panic", hp |-> hp]

\* getFiles on folder f when sh returned out at time t
\* (variant: LastUpdate is set before the output is looked at)
getFiles_StampFirst(hp, f, out, t) ==
  LET st == [hp EXCEPT ![f].LastUpdate = t] IN
  IF out.err THEN [res |-> "err", hp |-> st]
  ELSE IF out.header # gdriveListHeader THEN [res |-> "err", hp |-> st]
  ELSE getFilesLines(st, f, out.lines, 1)
getFiles(hp, f, out, t) ==
  IF out.err THEN [res |-> "err", hp |-> hp]
  ELSE IF out.header # gdriveListHeader THEN [res |-> "err", hp |-> hp]
  ELSE LET r == getFilesLines(hp, f, out.lines, 1) IN
    IF r.res = "ok" THEN [res |-> "ok", hp |-> [r.hp EXCEPT ![f].LastUpdate = t]]
    ELSE r

\* Folder objects a call of getFiles would allocate
RECURSIVE NewFolders(_)
NewFolders(lines) ==
  IF lines = << >> THEN 0
  ELSE (IF Head(lines) # BlankLine /\ Head(lines)[3] = "folder" THEN 1 ELSE 0)
       + NewFolders(Tail(lines))

\* -------------------------------------------------------------- formatSize
\* An int64 byte count is kept as two limbs: Size64(k, r) is k * 1024 + r
\* with 0 <= r < 1024, so that i / 1024 (integer division) is k.
Size64(k, r) == [k |-> k, r |-> r]

\* A rendered size is "<whole>[.<tenth>]<unit>"; tenth = -1 when the format
\* has no decimal.  EmptyText is "".
Text(whole, tenth, unit) == [whole |-> whole, tenth |-> tenth, unit |-> unit]
EmptyText == Text(-1, -1, "")

\* float32(n) for an integer n >= 0: 24 bits of mantissa, round to nearest,
\* ties to even.  Ulp is the spacing of float32 values at n.
RECURSIVE Ulp(_)
Ulp(n) == IF n < 16777216 THEN 1 ELSE 2 * Ulp(n \div 2)
float32(n) ==
  LET u == Ulp(n)
      q == n \div u
      r == n % u
  IN  IF 2 * r > u \/ (2 * r = u /\ q % 2 = 1) THEN (q + 1) * u ELSE q * u

\* fmt.Sprintf("%.1f" + unit, num / den): the exact quotient, rounded to one
\* decimal, ties to even
Sprintf1(num, den, unit) ==
  LET whole == num \div den
      t == ((num % den) * 10) \div den
      rr == ((num % den) * 10) % den
      up == 2 * rr > den \/ (2 * rr = den /\ t % 2 = 1)
      tenths == whole * 10 + t + (IF up THEN 1 ELSE 0)
  IN  Text(tenths \div 10, tenths % 10, unit)

KB == 1024
MB == 1024 * 1024
GB == 1024 * 1024 * 1024

\* f := float32(i / 1024), then f = f / 1024 while f >= 1024: the divisions
\* by 1024 are exact in float32.  At f >= GB the float32 values are multiples
\* of 128.
formatSize(i) ==
  IF i.k = 0 /\ i.r = 0 THEN EmptyText
  ELSE IF i.k = 0 THEN Text(i.r, -1, "b")
  ELSE LET f == float32(i.k) IN
    IF f < KB THEN Sprintf1(f, 1, "kb")
    ELSE IF f < MB THEN Sprintf1(f, KB, "mb")
    ELSE IF f < GB THEN Sprintf1(f, MB, "gb")
    ELSE Sprintf1(f \div 128, GB \div 128, "tb")

\* ---------------------------------------------------------------- explorer
\* sort.Slice on at most 12 elements is an insertion sort
\* names compare as strings; the model's names are single words
NameRank(n) ==
  CASE n = "" -> 0 [] n = "a" -> 1 [] n = "b" -> 2 [] n = "c" -> 3
    [] n = "d" -> 4 [] n = "doc" -> 5 [] n = "e" -> 6 [] n = "f" -> 7
    [] n = "g" -> 8 [] n = "lnk" -> 9 [] n = "m.bin" -> 10
    [] n = "r.txt" -> 11 [] OTHER -> 12

\* the less functions of explorer: larger first, then by name
folderLess(hp, x, y) ==
  IF hp[x].size # hp[y].size THEN hp[x].size > hp[y].size
  ELSE NameRank(hp[x].Name) < NameRank(hp[y].Name)
fileLess(x, y) ==
  IF x.Size # y.Size THEN x.Size > y.Size
  ELSE NameRank(x.Name) < NameRank(y.Name)

\* the elements are inserted right to left and an element goes before the
\* first one it is less than, so equal elements keep their order
RECURSIVE InsertFolder(_, _, _), SortFolders(_, _), InsertFile(_, _), SortFiles(_)
InsertFolder(hp, x, sorted) ==
  IF sorted = << >> THEN <<x>>
  ELSE IF ~folderLess(hp, Head(sorted), x) THEN <<x>> \o sorted
  ELSE <<Head(sorted)>> \o InsertFolder(hp, x, Tail(sorted))
SortFolders(hp, s) ==
  IF s = << >> THEN << >> ELSE InsertFolder(hp, Head(s), SortFolders(hp, Tail(s)))
InsertFile(x, sorted) ==
  IF sorted = << >> THEN <<x>>
  ELSE IF ~fileLess(Head(sorted), x) THEN <<x>> \o sorted
  ELSE <<Head(sorted)>> \o InsertFile(x, Tail(sorted))
SortFiles(s) ==
  IF s = << >> THEN << >> ELSE InsertFile(Head(s), SortFiles(Tail(s)))

\* explorer(f): the rows put into the list and the slice it returns
explorer(hp, f) ==
  LET res == SortFolders(hp, hp[f].Folders)
      files == SortFiles(hp[f].Files)
      up == IF hp[f].parent # NilFolder THEN <<[kind |-> "up", folder |-> NilFolder]>>
            ELSE << >>
  IN  [rows |-> up \o [i \in 1..Len(res) |-> [kind |-> "folder", folder |-> res[i]]]
                   \o [i \in 1..Len(files) |-> [kind |-> "file", folder |-> NilFolder]],
       res |-> res \o res]

\* ------------------------------------------------------------------- state
VARIABLES
  heap,       \* the Folder objects; heap[h] is the object behind pointer h
  disk,       \* db.json: NoFile or the last document written
  remote,     \* what the remote storage holds (the Lister reads it)
  now,        \* time.Now().Unix()
  phase,      \* main goroutine: "startup", "startupCall", "running", "panicked"
  stack,      \* stack[g]: the ensureData frames of goroutine g, innermost last
  gor,        \* gor[g]: the refresh goroutine started by the g-th 'l'/'x' key
  curFolder,  \* startApp's curFolder
  listItems,  \* startApp's listItems
  rows,       \* the items of the tview list
  forceMode,  \* startApp's forceMode
  calls,      \* the calls of sh so far: the identifier passed, the output, and
              \* the Folder object whose getFiles made the call
  saves,      \* number of completed writes of db.json
  panicInfo,  \* what stopped the process, if anything
  prevKeyF,   \* history: the key handled last was 'f'
  fn          \* the function applied on its own, with its input and result

vars == <<heap, disk, remote, now, phase, stack, gor, curFolder, listItems,
          rows, forceMode, calls, saves, panicInfo, prevKeyF, fn>>

Main == 0
Goroutines == 0..MaxRequests

\* One activation of ensureData.  f, forceUpdate, goDeep are its parameters
\* (goDeep is whether the pointer is non-nil; the object is gor[g].max/cur),
\* oldSize, i and n its locals (n is the length the range loop fixed), pc the
\* next statement.  listed is history: the identifiers this activation passed
\* to sh.
Frame(f, forceUpdate, goDeep) ==
  [f |-> f, forceUpdate |-> forceUpdate, goDeep |-> goDeep, pc |-> "check",
   oldSize |-> 0, i |-> 0, n |-> 0, listed |-> << >>]

Top(g) == stack[g][Len(stack[g])]
Pop(st) == SubSeq(st, 1, Len(st) - 1)
SetTop(st, fr) == [st EXCEPT ![Len(st)] = fr]

\* A refresh goroutine: folder and deep are what the key handler captured,
\* max and cur the goDeep object, pc where the goroutine is.  The rest is
\* history: the progress lines logged as <<cur, max>>, the folders onUpdate
\* was called with, the key, the force value read, at the call of ensureData
\* the number of Lister calls so far and whether the size equation held in
\* the whole tree, and at the key press whether the key before it was 'f'
\* (prevF), the value of forceMode (force0) and the list row the cursor was
\* on (row).
NoRow == [kind |-> "", folder |-> NilFolder]
NoGoroutine ==
  [pc |-> "unborn", folder |-> NilFolder, deep |-> FALSE, max |-> 0, cur |-> 0,
   progress |-> << >>, updates |-> << >>, force |-> FALSE, key |-> "",
   calls0 |-> 0, inv0 |-> FALSE, prevF |-> FALSE, force0 |-> FALSE,
   row |-> NoRow]
NoPanic == [why |-> "", g |-> 0, f |-> NilFolder]
\* no function was applied on its own
NoCall == [name |-> "", f |-> 0, runs |-> 0, first |-> << >>,
           i |-> [k |-> -1, r |-> -1], result |-> [whole |-> -1, tenth |-> -1, unit |-> ""]]

\* size == sum of file sizes + sum of child folder sizes
RECURSIVE SumFolderSizes(_, _)
SumFolderSizes(hp, fs) ==
  IF fs = << >> THEN 0 ELSE hp[Head(fs)].size + SumFolderSizes(hp, Tail(fs))
SizeOk(hp, h) == hp[h].size = SumSizes(hp[h].Files) + SumFolderSizes(hp, hp[h].Folders)
SizeOkAll(hp) == \A h \in 1..Len(hp) : SizeOk(hp, h)

\* snapshots an earlier run can have left behind
Doc(id, name, lastUpdate, folders, files) ==
  [ID |-> id, Name |-> name, Folders |-> folders, Files |-> files,
   Date |-> IF id = "" THEN 0 ELSE 1, LastUpdate |-> lastUpdate]
\* root fetched long ago, when it held only "a"; "a" fetched since
DiskStaleRoot ==
  [exists |-> TRUE, doc |->
    Doc("", "", 2, << Doc("A", "a", 4, << >>, <<File("m", "m.bin", 2, 1)>>) >>, << >>)]
\* root fresh, "a" fetched exactly at the cutoff, its child "c" fresh, "b" stale
DiskFreshRoot ==
  [exists |-> TRUE, doc |->
    Doc("", "", 4,
        << Doc("A", "a", 3, <<Doc("C", "c", 4, << >>, <<File("m2", "m.bin", 1536, 1)>>)>>,
               <<File("m", "m.bin", 2, 1)>>),
           Doc("B", "b", 2, << >>, <<File("r2", "r.txt", 3, 1)>>) >>,
        <<File("r", "r.txt", 1, 1)>>)]
\* os.WriteFile truncates db.json before it writes: a run that died in save
\* leaves a file that is no JSON document
TornFile == [exists |-> TRUE, torn |-> TRUE]
\* a db.json that os.Stat finds and os.ReadFile cannot read
UnreadableFile == [exists |-> TRUE, unreadable |-> TRUE]
\* load returns an error: os.ReadFile or json.Unmarshal failed
LoadFails(d) == d.exists /\ "doc" \notin DOMAIN d
\* root and "a" fetched in the last run, the child "c" of "a" never fetched
DiskFreshParent ==
  [exists |-> TRUE, doc |->
    Doc("", "", 4,
        << Doc("A", "a", 4, <<Doc("C", "c", 0, << >>, << >>)>>,
               <<File("m", "m.bin", 2, 1)>>) >>,
        << >>)]
Disks == {NoFile, DiskStaleRoot, DiskFreshRoot, DiskFreshParent, TornFile, UnreadableFile}
\* the snapshots were taken of the small remote tree
Worlds == (Disks \X {RemoteSmall}) \cup {<<NoFile, RemoteWide>>}

\* main up to the call of startApp, or up to its panic(err) when load
\* returned an error
Init ==
  /\ \E w \in Worlds : disk = w[1] /\ remote = w[2]
  /\ heap = IF ~disk.exists
              THEN <<[Folder("", "", 0, 0, NoSave) EXCEPT !.path = RootPath]>>
            ELSE IF LoadFails(disk) THEN <<Folder("", "", 0, 0, NoSave)>>
            ELSE load(disk.doc)
  /\ now = StartTime
  /\ phase = IF LoadFails(disk) THEN "panicked" ELSE "startup"
  /\ stack = [g \in Goroutines |-> << >>]
  /\ gor = [g \in 1..MaxRequests |-> NoGoroutine]
  /\ curFolder = NilFolder
  /\ listItems = << >>
  /\ rows = << >>
  /\ forceMode = FALSE
  /\ calls = << >>
  /\ saves = 0
  /\ panicInfo = IF LoadFails(disk) THEN [why |-> "load error", g |-> Main, f |-> NilFolder]
                 ELSE NoPanic
  /\ prevKeyF = FALSE
  /\ fn = NoCall

Alive == phase # "panicked"

Panic(why, g, f) ==
  /\ phase' = "panicked"
  /\ panicInfo' = [why |-> why, g |-> g, f |-> f]

\* selectFn(f)
SelectFn(hp, f) ==
  /\ curFolder' = f
  /\ listItems' = explorer(hp, f).res
  /\ rows' = explorer(hp, f).rows

\* ----------------------------------------------------------------- startApp
\* root.save = ...; root.ensureData(false, nil)
StartApp ==
  /\ phase = "startup"
  /\ heap' = [heap EXCEPT ![Root].save = SaveRoot]
  /\ stack' = [stack EXCEPT ![Main] = <<Frame(Root, FALSE, FALSE)>>]
  /\ phase' = "startupCall"
  /\ UNCHANGED <<fn, prevKeyF, disk, remote, now, gor, curFolder, listItems, rows, forceMode,
                 calls, saves, panicInfo>>

\* after the call returned: rebuild if folderIdx is nil, selectFn(curFolder)
StartAppRun ==
  /\ phase = "startupCall"
  /\ stack[Main] = << >>
  /\ LET hp == IF heap[Root].folderIdx.nil THEN rebuild(heap, Root) ELSE heap IN
       /\ heap' = hp
       /\ SelectFn(hp, Root)
  /\ phase' = "running"
  /\ UNCHANGED <<fn, prevKeyF, disk, remote, now, stack, gor, forceMode, calls, saves, panicInfo>>

\* --------------------------------------------------------------- ensureData
\* the ancestors of f, nearest first
RECURSIVE Ancestors(_, _)
Ancestors(hp, f) ==
  IF hp[f].parent = NilFolder THEN << >>
  ELSE <<hp[f].parent>> \o Ancestors(hp, hp[f].parent)

InSeq(x, s) == \E k \in 1..Len(s) : s[k] = x

Running(g) == Alive /\ stack[g] # << >>

\* the condition of the early return: !forceUpdate && f.LastUpdate > tooOld
\* (variant: the force flag is not looked at)
CacheHit_IgnoreForce(lastUpdate, forceUpdate) == lastUpdate > tooOld
\* (variant: the cutoff is the time of the check, not one fixed at start)
CacheHit_CutoffNow(lastUpdate, forceUpdate) == ~forceUpdate /\ lastUpdate > now
CacheHit(lastUpdate, forceUpdate) == ~forceUpdate /\ lastUpdate > tooOld

\* if !forceUpdate && f.LastUpdate > tooOld { return }; oldSize := f.size
Check(g) ==
  /\ Running(g) /\ Top(g).pc = "check"
  /\ LET fr == Top(g) IN
       IF CacheHit(heap[fr.f].LastUpdate, fr.forceUpdate)
         THEN stack' = [stack EXCEPT ![g] = Pop(@)]
         ELSE stack' = [stack EXCEPT ![g] =
                          SetTop(@, [fr EXCEPT !.pc = "getFiles", !.oldSize = heap[fr.f].size])]
  /\ UNCHANGED <<fn, prevKeyF, heap, disk, remote, now, phase, gor, curFolder, listItems, rows,
                 forceMode, calls, saves, panicInfo>>

\* what time.Now() can return: the clock only moves forward; the time that
\* passes between two readings shows at the next reading
Clock == {t \in now..(now + 1) : t <= MaxNow}

\* f.getFiles(), and the panic(err) of ensureData when it returns an error
\* (variant: the listing replaces the children instead of being appended)
GetFiles_Replace(g) ==
  /\ Running(g) /\ Top(g).pc = "getFiles"
  /\ LET fr == Top(g) IN
     \E out \in sh(remote, heap[fr.f].ID), t \in Clock :
       /\ Len(heap) + NewFolders(out.lines) <= MaxNodes
       /\ calls' = Append(calls, [id |-> heap[fr.f].ID, out |-> out, f |-> fr.f])
       /\ LET r == getFiles([heap EXCEPT ![fr.f].Folders = << >>, ![fr.f].Files = << >>],
                              fr.f, out, t)
              listed == Append(fr.listed, heap[fr.f].ID) IN
            /\ heap' = r.hp
            /\ IF r.res = "ok"
                 THEN /\ now' = t
                      /\ stack' = [stack EXCEPT ![g] =
                                     SetTop(@, [fr EXCEPT !.pc = "save", !.listed = listed])]
                      /\ UNCHANGED <<phase, panicInfo>>
                 ELSE /\ now' = now
                      /\ stack' = [stack EXCEPT ![g] =
                                     SetTop(@, [fr EXCEPT !.pc = "panic", !.listed = listed])]
                      /\ Panic(IF r.res = "err" THEN "getFiles error" ELSE "getFiles panic",
                               g, fr.f)
  /\ UNCHANGED <<fn, prevKeyF, disk, remote, gor, curFolder, listItems, rows, forceMode, saves>>
GetFiles(g) ==
  /\ Running(g) /\ Top(g).pc = "getFiles"
  /\ LET fr == Top(g) IN
     \E out \in sh(remote, heap[fr.f].ID), t \in Clock :
       /\ Len(heap) + NewFolders(out.lines) <= MaxNodes
       /\ calls' = Append(calls, [id |-> heap[fr.f].ID, out |-> out, f |-> fr.f])
       /\ LET r == getFiles(heap, fr.f, out, t)
              listed == Append(fr.listed, heap[fr.f].ID) IN
            /\ heap' = r.hp
            /\ IF r.res = "ok"
                 THEN /\ now' = t
                      /\ stack' = [stack EXCEPT ![g] =
                                     SetTop(@, [fr EXCEPT !.pc = "save", !.listed = listed])]
                      /\ UNCHANGED <<phase, panicInfo>>
                 ELSE /\ now' = now
                      /\ stack' = [stack EXCEPT ![g] =
                                     SetTop(@, [fr EXCEPT !.pc = "panic", !.listed = listed])]
                      /\ Panic(IF r.res = "err" THEN "getFiles error" ELSE "getFiles panic",
                               g, fr.f)
  /\ UNCHANGED <<fn, prevKeyF, disk, remote, gor, curFolder, listItems, rows, forceMode, saves>>

\* if f.save == nil { panic }; if err := f.save(); err != nil { panic }
\* (variant: ensureData goes on without writing db.json)
Save_NoWrite(g) ==
  /\ Running(g) /\ Top(g).pc = "save"
  /\ stack' = [stack EXCEPT ![g] =
         SetTop(@, [Top(g) EXCEPT !.pc = IF Top(g).goDeep THEN "deepInit" ELSE "rebuild"])]
  /\ UNCHANGED <<fn, prevKeyF, heap, disk, remote, now, phase, gor, curFolder, listItems, rows,
                 forceMode, calls, saves, panicInfo>>
Save(g) ==
  /\ Running(g) /\ Top(g).pc = "save"
  /\ LET fr == Top(g) IN
     \E written \in {"all", "nothing", "torn"} :
       IF heap[fr.f].save = NoSave THEN
          /\ written = "nothing"
          /\ Panic("no save function", g, fr.f)
          /\ stack' = [stack EXCEPT ![g] = SetTop(@, [fr EXCEPT !.pc = "panic"])]
          /\ UNCHANGED <<disk, saves>>
       ELSE IF written = "all" THEN
          /\ disk' = SnapshotOf(heap)
          /\ saves' = saves + 1
          /\ stack' = [stack EXCEPT ![g] =
                         SetTop(@, [fr EXCEPT !.pc = IF fr.goDeep THEN "deepInit" ELSE "rebuild"])]
          /\ UNCHANGED <<phase, panicInfo>>
       ELSE
          /\ disk' = IF written = "torn" THEN TornFile ELSE disk
          /\ Panic("save error", g, fr.f)
          /\ stack' = [stack EXCEPT ![g] = SetTop(@, [fr EXCEPT !.pc = "panic"])]
          /\ UNCHANGED saves
  /\ UNCHANGED <<fn, prevKeyF, heap, remote, now, gor, curFolder, listItems, rows, forceMode, calls>>

\* goDeep.max += len(f.Folders); for i := range f.Folders
DeepInit(g) ==
  /\ Running(g) /\ Top(g).pc = "deepInit"
  /\ LET fr == Top(g) IN
       /\ gor' = [gor EXCEPT ![g].max = @ + Len(heap[fr.f].Folders)]
       /\ stack' = [stack EXCEPT ![g] =
                      SetTop(@, [fr EXCEPT !.pc = "loop", !.i = 1, !.n = Len(heap[fr.f].Folders)])]
  /\ UNCHANGED <<fn, prevKeyF, heap, disk, remote, now, phase, curFolder, listItems, rows,
                 forceMode, calls, saves, panicInfo>>

\* loop head; f.attachChild(folder); folder.ensureData(forceUpdate, goDeep)
Loop(g) ==
  /\ Running(g) /\ Top(g).pc = "loop"
  /\ LET fr == Top(g) IN
       IF fr.i <= fr.n
         THEN LET folder == heap[fr.f].Folders[fr.i]
                  hp == attachChild(heap, fr.f, folder) IN
              /\ heap' = hp
              /\ stack' = [stack EXCEPT ![g] =
                   Append(SetTop(@, [fr EXCEPT !.pc = "afterChild"]),
                          Frame(folder, fr.forceUpdate, TRUE))]
         ELSE /\ stack' = [stack EXCEPT ![g] = SetTop(@, [fr EXCEPT !.pc = "deepEnd"])]
              /\ UNCHANGED heap
  /\ UNCHANGED <<fn, prevKeyF, disk, remote, now, phase, gor, curFolder, listItems, rows,
                 forceMode, calls, saves, panicInfo>>

\* goDeep.onUpdate(cur): selectFn(cur) for the first of cur and its ancestors
\* that is curFolder
OnUpdate(hp, cur) ==
  IF InSeq(curFolder, <<cur>> \o Ancestors(hp, cur))
    THEN SelectFn(hp, curFolder)
    ELSE UNCHANGED <<curFolder, listItems, rows>>

\* the child returned: f.rebuild(); goDeep.onUpdate(f)
\* (variant: onUpdate is called without the rebuild)
AfterChild_NoRebuild(g) ==
  /\ Running(g) /\ Top(g).pc = "afterChild"
  /\ LET fr == Top(g) IN
       /\ heap' = heap
       /\ OnUpdate(heap, fr.f)
       /\ gor' = [gor EXCEPT ![g].updates = Append(@, fr.f)]
       /\ stack' = [stack EXCEPT ![g] = SetTop(@, [fr EXCEPT !.pc = "loop", !.i = @ + 1])]
  /\ UNCHANGED <<fn, prevKeyF, disk, remote, now, phase, forceMode, calls, saves, panicInfo>>
AfterChild(g) ==
  /\ Running(g) /\ Top(g).pc = "afterChild"
  /\ LET fr == Top(g)
         hp == rebuild(heap, fr.f) IN
       /\ heap' = hp
       /\ OnUpdate(hp, fr.f)
       /\ gor' = [gor EXCEPT ![g].updates = Append(@, fr.f)]
       /\ stack' = [stack EXCEPT ![g] = SetTop(@, [fr EXCEPT !.pc = "loop", !.i = @ + 1])]
  /\ UNCHANGED <<fn, prevKeyF, disk, remote, now, phase, forceMode, calls, saves, panicInfo>>

\* if len(f.Folders) == 0 { f.rebuild() }; goDeep.cur += 1; log("progress: ...")
DeepEnd(g) ==
  /\ Running(g) /\ Top(g).pc = "deepEnd"
  /\ LET fr == Top(g) IN
       /\ heap' = IF Len(heap[fr.f].Folders) = 0 THEN rebuild(heap, fr.f) ELSE heap
       /\ gor' = [gor EXCEPT ![g].cur = @ + 1,
                             ![g].progress = Append(@, <<gor[g].cur + 1, gor[g].max>>)]
       /\ stack' = [stack EXCEPT ![g] = SetTop(@, [fr EXCEPT !.pc = "propagate"])]
  /\ UNCHANGED <<fn, prevKeyF, disk, remote, now, phase, curFolder, listItems, rows, forceMode,
                 calls, saves, panicInfo>>

\* the else branch: f.rebuild()
Rebuild(g) ==
  /\ Running(g) /\ Top(g).pc = "rebuild"
  /\ heap' = rebuild(heap, Top(g).f)
  /\ stack' = [stack EXCEPT ![g] = SetTop(@, [Top(g) EXCEPT !.pc = "propagate"])]
  /\ UNCHANGED <<fn, prevKeyF, disk, remote, now, phase, gor, curFolder, listItems, rows,
                 forceMode, calls, saves, panicInfo>>

\* the loop over the parents: size += sizeChange, unknown -= 1, known += 1
\* (variant: only the direct parent is adjusted)
propagate_ParentOnly(hp, f, oldSize) ==
  LET sizeChange == hp[f].size - oldSize IN
  [h \in 1..Len(hp) |->
     IF h = hp[f].parent
       THEN [hp[h] EXCEPT !.size = @ + sizeChange, !.unknown = @ - 1, !.known = @ + 1]
       ELSE hp[h]]
propagate(hp, f, oldSize) ==
  LET sizeChange == hp[f].size - oldSize
      anc == Ancestors(hp, f) IN
  [h \in 1..Len(hp) |->
     IF InSeq(h, anc)
       THEN [hp[h] EXCEPT !.size = @ + sizeChange, !.unknown = @ - 1, !.known = @ + 1]
       ELSE hp[h]]

\* the propagation loop and the return
Propagate(g) ==
  /\ Running(g) /\ Top(g).pc = "propagate"
  /\ heap' = propagate(heap, Top(g).f, Top(g).oldSize)
  /\ stack' = [stack EXCEPT ![g] = Pop(@)]
  /\ UNCHANGED <<fn, prevKeyF, disk, remote, now, phase, gor, curFolder, listItems, rows,
                 forceMode, calls, saves, panicInfo>>

EnsureData(g) ==
  \/ Check(g) \/ GetFiles(g) \/ Save(g) \/ DeepInit(g) \/ Loop(g)
  \/ AfterChild(g) \/ DeepEnd(g) \/ Rebuild(g) \/ Propagate(g)

\* ------------------------------------------------------- the input handlers
Busy == \E g \in DOMAIN gor : gor[g].pc \in {"start", "ensure"}
\* some refresh goroutine is inside ensureData
Ensuring == \E g \in DOMAIN gor : gor[g].pc = "ensure"
Requests == Cardinality({g \in DOMAIN gor : gor[g].pc # "unborn"})

\* 'l' or 'x' with the list cursor on row i (0 based).  overlap tells whether
\* keys may arrive while an earlier refresh goroutine is still running.
KeyLX(ch, i, overlap) ==
  /\ phase = "running"
  /\ overlap \/ ~Busy
  /\ Requests < Len(gor)
  /\ i < Len(listItems)
  /\ listItems[i + 1] # NilFolder
  /\ gor' = [gor EXCEPT ![Requests + 1] =
               [NoGoroutine EXCEPT !.pc = "start", !.folder = listItems[i + 1],
                                   !.deep = (ch = "x"), !.max = IF ch = "x" THEN 1 ELSE 0,
                                   !.key = ch, !.prevF = prevKeyF,
                                   !.force0 = forceMode,
                                   !.row = rows[i + 1]]]
  /\ prevKeyF' = FALSE
  /\ UNCHANGED <<fn, heap, disk, remote, now, phase, stack, curFolder, listItems, rows,
                 forceMode, calls, saves, panicInfo>>

\* the goroutine: reads forceMode, calls folder.ensureData(forceMode, deep)
GoStart(g) ==
  /\ Alive /\ gor[g].pc = "start"
  /\ gor' = [gor EXCEPT ![g].pc = "ensure", ![g].force = forceMode,
                        ![g].calls0 = Len(calls), ![g].inv0 = SizeOkAll(heap)]
  /\ stack' = [stack EXCEPT ![g] = <<Frame(gor[g].folder, forceMode, gor[g].deep)>>]
  /\ UNCHANGED <<fn, prevKeyF, heap, disk, remote, now, phase, curFolder, listItems, rows,
                 forceMode, calls, saves, panicInfo>>

\* the goroutine after ensureData returned: selectFn(curFolder); app.Draw()
GoFinish(g) ==
  /\ Alive /\ gor[g].pc = "ensure" /\ stack[g] = << >>
  /\ gor' = [gor EXCEPT ![g].pc = "done"]
  /\ SelectFn(heap, curFolder)
  /\ UNCHANGED <<fn, prevKeyF, heap, disk, remote, now, phase, stack, forceMode, calls, saves,
                 panicInfo>>

\* Enter on row i (0 based): the selected function of that list item
KeyEnter(i, overlap) ==
  /\ phase = "running"
  /\ overlap \/ ~Busy
  /\ i < Len(rows)
  /\ rows[i + 1].kind # "file"
  /\ LET target == IF rows[i + 1].kind = "up" THEN heap[curFolder].parent
                   ELSE rows[i + 1].folder
         hp == [heap EXCEPT ![curFolder].lastIdx = i] IN
       /\ heap' = hp
       /\ SelectFn(hp, target)
  /\ prevKeyF' = FALSE
  /\ UNCHANGED <<fn, disk, remote, now, phase, stack, gor, forceMode, calls, saves,
                 panicInfo>>

\* any rune but 'l', 'x', 'q': forceMode = (ch == 'f')
KeyRune(ch, overlap) ==
  /\ phase = "running"
  /\ overlap \/ ~Busy
  /\ forceMode' = (ch = "f")
  /\ forceMode' # forceMode \/ prevKeyF # (ch = "f")
  /\ prevKeyF' = (ch = "f")
  /\ UNCHANGED <<fn, heap, disk, remote, now, phase, stack, gor, curFolder, listItems,
                 rows, calls, saves, panicInfo>>

\* the rows the list cursor can be on (row 0 when the list is empty)
CursorRows == 0..(IF rows = << >> THEN 0 ELSE Len(rows) - 1)

Next ==
  \/ StartApp
  \/ StartAppRun
  \/ \E g \in Goroutines : EnsureData(g)
  \/ \E ch \in {"l", "x"}, i \in CursorRows : KeyLX(ch, i, FALSE)
  \/ \E g \in 1..MaxRequests : GoStart(g) \/ GoFinish(g)
  \/ \E i \in CursorRows : KeyEnter(i, FALSE)
  \/ \E ch \in {"f", "j"} : KeyRune(ch, FALSE)

Spec == Init /\ [][Next]_vars

\* ----------------------------------------------- keys during a running refresh
\* The input handler returns as soon as it has started the goroutine, so the
\* next key is handled while the goroutine runs.  The same program, started
\* on a snapshot whose root is fresh, with 'l' and 'x' arriving at any time
\* (the other keys arrive between refreshes, as in Spec).
RaceRequests == 2  \* 'l' / 'x' key presses

\* root fetched when it held only "a"; "a" was never fetched
DiskRace ==
  [exists |-> TRUE, doc |-> Doc("", "", 4, << Doc("A", "a", 0, << >>, << >>) >>, << >>)]

RaceInit ==
  /\ disk = DiskRace /\ remote = RemoteSmall
  /\ heap = load(disk.doc)
  /\ now = StartTime
  /\ phase = "startup"
  /\ stack = [g \in 0..RaceRequests |-> << >>]
  /\ gor = [g \in 1..RaceRequests |-> NoGoroutine]
  /\ curFolder = NilFolder
  /\ listItems = << >>
  /\ rows = << >>
  /\ forceMode = FALSE
  /\ calls = << >>
  /\ saves = 0
  /\ panicInfo = NoPanic
  /\ prevKeyF = FALSE
  /\ fn = NoCall

NextRace ==
  \/ StartApp
  \/ StartAppRun
  \/ \E g \in 0..RaceRequests : EnsureData(g)
  \/ \E ch \in {"l", "x"}, i \in CursorRows : KeyLX(ch, i, TRUE)
  \/ \E g \in 1..RaceRequests : GoStart(g) \/ GoFinish(g)
  \/ \E i \in CursorRows : KeyEnter(i, FALSE)
  \/ \E ch \in {"f", "j"} : KeyRune(ch, FALSE)

SpecRace == RaceInit /\ [][NextRace]_vars

\* ------------------------------------------------------ keys between refreshes
\* The same program with the refreshes one at a time: 'l', 'x' and Enter
\* arrive when no refresh goroutine is alive, the other runes also after an
\* 'l' or 'x' whose goroutine has not yet read forceMode.
\* root fresh, "a" fetched long ago, its child "c" never fetched
DiskStaleParent ==
  [exists |-> TRUE, doc |->
    Doc("", "", 4,
        << Doc("A", "a", 2, <<Doc("C", "c", 0, << >>, << >>)>>,
               <<File("m", "m.bin", 2, 1)>>) >>,
        << >>)]

KeysInit ==
  /\ disk \in {DiskRace, DiskStaleParent} /\ remote = RemoteSmall
  /\ heap = load(disk.doc)
  /\ now = StartTime
  /\ phase = "startup"
  /\ stack = [g \in 0..RaceRequests |-> << >>]
  /\ gor = [g \in 1..RaceRequests |-> NoGoroutine]
  /\ curFolder = NilFolder
  /\ listItems = << >>
  /\ rows = << >>
  /\ forceMode = FALSE
  /\ calls = << >>
  /\ saves = 0
  /\ panicInfo = NoPanic
  /\ prevKeyF = FALSE
  /\ fn = NoCall

NextKeys ==
  \/ StartApp
  \/ StartAppRun
  \/ \E g \in 0..RaceRequests : EnsureData(g)
  \/ \E ch \in {"l", "x"}, i \in CursorRows : KeyLX(ch, i, FALSE)
  \/ \E g \in 1..RaceRequests : GoStart(g) \/ GoFinish(g)
  \/ \E i \in CursorRows : KeyEnter(i, FALSE)
  \/ \E ch \in {"f", "j"} : KeyRune(ch, ~Ensuring)

SpecKeys == KeysInit /\ [][NextKeys]_vars

\* The runs of SpecKeys in which 'f' is never typed: forceMode stays false,
\* and the runes that only write forceMode change nothing.
NextUnforced ==
  \/ StartApp
  \/ StartAppRun
  \/ \E g \in 0..RaceRequests : EnsureData(g)
  \/ \E ch \in {"l", "x"}, i \in CursorRows : KeyLX(ch, i, FALSE)
  \/ \E g \in 1..RaceRequests : GoStart(g) \/ GoFinish(g)
  \/ \E i \in CursorRows : KeyEnter(i, FALSE)

SpecUnforced == KeysInit /\ [][NextUnforced]_vars

\* ------------------------------------------- the functions applied on their own
\* rebuild, save + load and formatSize applied to inputs drawn from bounded
\* sets.  heap is the tree, fn tells what was applied last.
FnWidth == 2   \* child folders of the root of an input tree

Seqs(S, n) == UNION {[1..k -> S] : k \in 0..n}

\* input trees: snapshots of up to three levels, with folders fetched
\* before, at and after the cutoff and never, with and without files,
\* siblings with equal and different names
FnLeaves ==
  { Doc("C", "c", 4, << >>, <<File("m2", "m.bin", 1536, 1)>>),
    Doc("D", "d", 0, << >>, << >>) }
FnMids ==
  { Doc(n[1], n[2], lu, kids,
        IF n[2] = "a" THEN <<File("m", "m.bin", 2, 1)>>
        ELSE <<File("r2", "r.txt", 3, 1), File("m3", "m.bin", 1, 2)>>) :
      n \in {<<"A", "a">>, <<"B", "b">>}, lu \in {2, tooOld, 4},
      kids \in { << >>,
                 <<Doc("C", "c", 4, << >>, <<File("m2", "m.bin", 1536, 1)>>)>>,
                 <<Doc("C", "c", 4, << >>, <<File("m2", "m.bin", 1536, 1)>>),
                   Doc("D", "d", 0, << >>, << >>)>> } }
FnDocs == { Doc("", "", 4, kids, <<File("r", "r.txt", 1, 1)>>) : kids \in Seqs(FnMids, FnWidth) }

\* input sizes: zero, the bytes, both ends of every unit's range, values with
\* a fraction, a tie of the rounding, and values float32 has to round
FnSizes ==
  { Size64(0, 0), Size64(0, 1), Size64(0, 512), Size64(0, 1023),
    Size64(1, 0), Size64(1, 512), Size64(2, 0), Size64(1023, 1023),
    Size64(KB, 0), Size64(1280, 0), Size64(1536, 0), Size64(3 * KB, 0), Size64(MB - 1, 1023),
    Size64(MB, 0), Size64(MB + MB \div 2, 0), Size64(16777217, 0), Size64(GB - 1, 0),
    Size64(GB - 32, 0), Size64(GB, 0), Size64(GB + GB \div 2, 5) }

NoSize == Size64(-1, -1)
Call(name, f, runs, first, i, result) ==
  [name |-> name, f |-> f, runs |-> runs, first |-> first, i |-> i, result |-> result]

\* the tree as json.Unmarshal leaves it, the path of the root set
FnInit ==
  /\ \E doc \in FnDocs : heap = [Unmarshal(<< >>, doc) EXCEPT ![Root].path = RootPath]
  /\ disk = NoFile /\ remote = RemoteSmall
  /\ now = StartTime
  /\ phase = "fn"
  /\ stack = [g \in Goroutines |-> << >>]
  /\ gor = [g \in 1..MaxRequests |-> NoGoroutine]
  /\ curFolder = NilFolder
  /\ listItems = << >>
  /\ rows = << >>
  /\ forceMode = FALSE
  /\ calls = << >>
  /\ saves = 0
  /\ panicInfo = NoPanic
  /\ prevKeyF = FALSE
  /\ fn = NoCall

\* f.rebuild()
FnRebuild(f) ==
  /\ phase = "fn" /\ fn.name \in {"", "load"}
  /\ heap' = rebuild(heap, f)
  /\ fn' = Call("rebuild", f, 1, heap', NoSize, EmptyText)
  /\ UNCHANGED <<prevKeyF, disk, remote, now, phase, stack, gor, curFolder, listItems, rows,
                 forceMode, calls, saves, panicInfo>>

\* f.rebuild() once more, on the same folder
FnRebuildAgain ==
  /\ phase = "fn" /\ fn.name = "rebuild" /\ fn.runs = 1
  /\ heap' = rebuild(heap, fn.f)
  /\ fn' = [fn EXCEPT !.runs = 2]
  /\ UNCHANGED <<prevKeyF, disk, remote, now, phase, stack, gor, curFolder, listItems, rows,
                 forceMode, calls, saves, panicInfo>>

\* save(root); load(savePath).  fn.first keeps the tree that was saved.
FnSaveLoad ==
  /\ phase = "fn" /\ fn.name \in {"", "rebuild"}
  /\ disk' = SnapshotOf(heap)
  /\ heap' = load(disk'.doc)
  /\ fn' = Call("load", Root, 1, heap, NoSize, EmptyText)
  /\ UNCHANGED <<prevKeyF, remote, now, phase, stack, gor, curFolder, listItems, rows,
                 forceMode, calls, saves, panicInfo>>

\* formatSize(i)
FnFormatSize(i) ==
  /\ phase = "fn" /\ fn.name = ""
  /\ fn' = Call("formatSize", NilFolder, 1, << >>, i, formatSize(i))
  /\ UNCHANGED <<prevKeyF, heap, disk, remote, now, phase, stack, gor, curFolder, listItems,
                 rows, forceMode, calls, saves, panicInfo>>

FnNext ==
  \/ \E f \in 1..Len(heap) : FnRebuild(f)
  \/ FnRebuildAgain
  \/ FnSaveLoad
  \/ \E i \in FnSizes : FnFormatSize(i)

SpecFn == FnInit /\ [][FnNext]_vars

\* ================================================================ properties
Frames == {<<g, k>> \in Goroutines \X (1..MaxNodes) : k <= Len(stack[g])}
Returned(g) == gor[g].pc = "ensure" /\ stack[g] = << >>
LastCall == calls[Len(calls)]
\* goroutine g takes a step of getFiles
GetFilesStep(g) ==
  /\ stack[g] # << >> /\ Top(g).pc = "getFiles"
  /\ stack'[g] # stack[g]
ListerFailed(out) == out.err \/ out.header # gdriveListHeader
CountType(lines, type) ==
  Cardinality({k \in 1..Len(lines) : lines[k] # BlankLine /\ lines[k][3] = type})
HasUnknownType(lines) ==
  \E k \in 1..Len(lines) :
    lines[k] # BlankLine /\ lines[k][3] \notin {"regular", "folder", "document", "shortcut"}

\* C1: a call of ensureData with force = false on a node whose LastUpdate is
\* later than the cutoff returns at once: no Lister call, no save, no change
\* to the tree.  A call with force = true, or on a node whose LastUpdate is
\* older than the cutoff (0 included), goes on to getFiles, and every
\* activation that went past getFiles has called the Lister exactly once,
\* with its node's identifier.
C1_CheckStep ==
  \A g \in Goroutines :
    (stack[g] # << >> /\ Top(g).pc = "check" /\ stack'[g] # stack[g]) =>
      LET fr == Top(g)
          lu == heap[fr.f].LastUpdate IN
      /\ (~fr.forceUpdate /\ lu > tooOld) =>
            /\ stack'[g] = Pop(stack[g])
            /\ heap' = heap /\ disk' = disk /\ calls' = calls /\ saves' = saves
      /\ (fr.forceUpdate \/ lu < tooOld) =>
            /\ Len(stack'[g]) = Len(stack[g])
            /\ stack'[g][Len(stack[g])].pc = "getFiles"
C1_OneCall ==
  \A x \in Frames :
    LET fr == stack[x[1]][x[2]] IN
    IF fr.pc \in {"check", "getFiles"} THEN fr.listed = << >>
    ELSE fr.listed = <<heap[fr.f].ID>>
C1_StalenessPolicy == [][C1_CheckStep]_vars /\ []C1_OneCall
\* the call at startup was a cache hit (no Lister call was made before the
\* first refresh goroutine called ensureData), and that goroutine's unforced
\* ensureData on a stale folder has made its one call
C1_Witness ==
  \E g \in 1..MaxRequests :
    /\ gor[g].pc = "ensure" /\ gor[g].calls0 = 0 /\ ~gor[g].force
    /\ Len(stack[g]) = 1
    /\ Top(g).pc = "save" /\ Top(g).listed = <<heap[Top(g).f].ID>>
    /\ Len(calls) = 1

\* C2: when a deep ensureData, called on a tree in which the size equation
\* holds, has returned, size == sum of file sizes + sum of child folder sizes
\* holds for every folder of the tree, the ancestors of the refreshed folder
\* included.
C2_DeepSizeInvariant ==
  \A g \in 1..MaxRequests :
    (Returned(g) /\ gor[g].deep /\ gor[g].inv0) => SizeOkAll(heap)

\* C3: when a non-deep ensureData, called on a tree in which the size equation
\* holds, has returned, the equation holds for every folder, and every size
\* is the one a rebuild from the root computes.
SameSizes(a, b) == \A h \in 1..Len(a) : a[h].size = b[h].size
C3_SingleSizeInvariant ==
  /\ \A g \in 1..MaxRequests :
       (Returned(g) /\ ~gor[g].deep /\ gor[g].inv0) =>
          SizeOkAll(heap) /\ SameSizes(heap, rebuild(heap, Root))
  /\ (phase = "startupCall" /\ stack[Main] = << >>) =>
          SizeOkAll(heap) /\ SameSizes(heap, rebuild(heap, Root))
\* a non-deep refresh has fetched a folder whose size became positive
C3_Witness ==
  \E g \in 1..MaxRequests :
    /\ Returned(g) /\ ~gor[g].deep /\ gor[g].inv0
    /\ Len(calls) > gor[g].calls0
    /\ heap[gor[g].folder].size > 0
    /\ heap[gor[g].folder].parent # NilFolder

\* C4: after ensureData has merged a Lister result into a folder, no two child
\* folders of that folder share an identifier and no two of its files do.
DistinctIDs(s) == \A i, j \in 1..Len(s) : i # j => s[i] # s[j]
C4_MergeByIdentifier ==
  \A x \in Frames :
    LET fr == stack[x[1]][x[2]] IN
    fr.pc \notin {"check", "getFiles", "panic"} =>
      /\ DistinctIDs([i \in 1..Len(heap[fr.f].Folders) |-> heap[heap[fr.f].Folders[i]].ID])
      /\ DistinctIDs([i \in 1..Len(heap[fr.f].Files) |-> heap[fr.f].Files[i].ID])

\* C5: when the Lister call fails (the subprocess did not run or exited
\* abnormally, or the first line is not the header), the node's Folders, Files
\* and LastUpdate stay as they were, nothing is saved, and ensureData ends in
\* the panic that carries the error.
C5_Step ==
  \A g \in Goroutines :
    (GetFilesStep(g) /\ ListerFailed(calls'[Len(calls')].out)) =>
      LET f == Top(g).f IN
      /\ heap'[f].Folders = heap[f].Folders
      /\ heap'[f].Files = heap[f].Files
      /\ heap'[f].LastUpdate = heap[f].LastUpdate
      /\ Len(heap') = Len(heap)
      /\ disk' = disk /\ saves' = saves
      /\ phase' = "panicked" /\ panicInfo'.g = g /\ panicInfo'.f = f
C5_ListerFailureNoChange == [][C5_Step]_vars
\* the Lister failed for a folder that already had children
C5_Witness ==
  /\ phase = "panicked" /\ calls # << >>
  /\ ListerFailed(LastCall.out)
  /\ heap[panicInfo.f].Folders # << >>

\* C6: when the listing holds an entry of an unrecognized type the refresh
\* fails and none of the listing's entries is in the node's Folders or Files;
\* a listing without such entries adds one child per folder entry and one file
\* per regular entry, none for document and shortcut entries.
C6_Step ==
  \A g \in Goroutines :
    (GetFilesStep(g) /\ ~ListerFailed(calls'[Len(calls')].out)) =>
      LET f == Top(g).f
          lines == calls'[Len(calls')].out.lines IN
      IF HasUnknownType(lines)
        THEN /\ phase' = "panicked"
             /\ heap'[f].Folders = heap[f].Folders
             /\ heap'[f].Files = heap[f].Files
        ELSE /\ phase' = phase
             /\ Len(heap'[f].Folders) = Len(heap[f].Folders) + CountType(lines, "folder")
             /\ Len(heap'[f].Files) = Len(heap[f].Files) + CountType(lines, "regular")
C6_UnknownTypeNoPartialMerge == [][C6_Step]_vars

\* the position of folder h in the tree below cur, as child indices; <<0>> if
\* h is not there
RECURSIVE Contains(_, _, _), PathTo(_, _, _), NodeAt(_, _)
Contains(hp, cur, h) ==
  cur = h \/ \E i \in 1..Len(hp[cur].Folders) : Contains(hp, hp[cur].Folders[i], h)
PathTo(hp, cur, h) ==
  IF cur = h THEN << >>
  ELSE IF ~Contains(hp, cur, h) THEN <<0>>
  ELSE LET i == CHOOSE i \in 1..Len(hp[cur].Folders) : Contains(hp, hp[cur].Folders[i], h)
       IN  <<i>> \o PathTo(hp, hp[cur].Folders[i], h)
MissingDoc == Doc("?", "?", -1, << >>, << >>)
\* the node of a snapshot document at a position
NodeAt(doc, path) ==
  IF path = << >> THEN doc
  ELSE IF path[1] \notin 1..Len(doc.Folders) THEN MissingDoc
  ELSE NodeAt(doc.Folders[path[1]], Tail(path))

\* the document node at the position of folder f holds f's persisted fields
\* and the identifiers of f's children
InSnapshot(d, hp, f) ==
  /\ d.exists /\ "doc" \in DOMAIN d
  /\ d.doc.ID = hp[Root].ID
  /\ Len(d.doc.Folders) = Len(hp[Root].Folders)
  /\ LET node == NodeAt(d.doc, PathTo(hp, Root, f)) IN
       /\ node.ID = hp[f].ID /\ node.Name = hp[f].Name /\ node.Date = hp[f].Date
       /\ node.LastUpdate = hp[f].LastUpdate
       /\ node.Files = hp[f].Files
       /\ Len(node.Folders) = Len(hp[f].Folders)
       /\ \A i \in 1..Len(node.Folders) : node.Folders[i].ID = hp[hp[f].Folders[i]].ID

\* C7: once an activation of ensureData has merged a listing, db.json holds
\* the whole tree from the root with the node's merged children, files and
\* LastUpdate, in every state in which the activation is past its save: while
\* it calls ensureData for its children (so before any Lister call for a
\* child) and until it returns.
C7_WriteThrough ==
  \A x \in Frames :
    LET fr == stack[x[1]][x[2]] IN
    (Alive /\ fr.pc \in {"deepInit", "loop", "afterChild", "deepEnd", "rebuild", "propagate"})
      => /\ InSnapshot(disk, heap, fr.f)
         /\ heap[fr.f].LastUpdate >= StartTime
\* a deep refresh is about to call the Lister for a child of a folder whose
\* merged listing held files and folders
C7_Witness ==
  \E g \in 1..MaxRequests :
    /\ Len(stack[g]) >= 2 /\ Top(g).pc = "getFiles"
    /\ heap[stack[g][1].f].Files # << >>
    /\ stack[g][1].f # Root

\* C8: when getFiles fails for a child folder during a deep refresh, db.json
\* is left as it is and it is the snapshot of the whole tree as the successful
\* refreshes before the failure left it.
C8_Step ==
  \A g \in 1..MaxRequests :
    (GetFilesStep(g) /\ Len(stack[g]) >= 2 /\ phase' = "panicked") =>
      /\ disk' = disk
      /\ disk = SnapshotOf(heap)
C8_FailureIsolation == [][C8_Step]_vars
\* the Lister failed for a child after an earlier sibling was refreshed
C8_Witness ==
  /\ phase = "panicked"
  /\ panicInfo.why \in {"getFiles error", "getFiles panic"}
  /\ panicInfo.g \in 1..MaxRequests
  /\ Len(stack[panicInfo.g]) >= 2
  /\ stack[panicInfo.g][Len(stack[panicInfo.g]) - 1].i >= 2

\* C9: when a deep refresh started with max = 1 and cur = 0 has returned,
\* cur equals max.
C9_DeepProgressComplete ==
  \A g \in 1..MaxRequests :
    (Returned(g) /\ gor[g].deep) => gor[g].cur = gor[g].max

\* C10: the progress fractions cur/max logged by one deep refresh never
\* decrease, and cur never exceeds max.
C10_DeepProgressMonotone ==
  \A g \in 1..MaxRequests :
    LET p == gor[g].progress IN
    /\ \A k \in 1..(Len(p) - 1) : p[k][1] * p[k + 1][2] <= p[k + 1][1] * p[k][2]
    /\ \A k \in 1..Len(p) : p[k][1] <= p[k][2]
    /\ gor[g].cur <= gor[g].max

\* C11: refreshes are serialized: no state is reachable in which two refresh
\* goroutines have both passed the staleness check of the same folder and
\* both have merged a listing into it.
Merged(fr) == fr.pc \notin {"check", "getFiles", "panic"}
C11_RefreshesSerialized ==
  \A g1, g2 \in DOMAIN gor :
    g1 # g2 =>
      ~ \E k1 \in 1..Len(stack[g1]), k2 \in 1..Len(stack[g2]) :
          /\ stack[g1][k1].f = stack[g2][k2].f
          /\ Merged(stack[g1][k1]) /\ Merged(stack[g2][k2])

\* the startup call of ensureData has returned
StartupReturned == phase = "startupCall" /\ stack[Main] = << >>

\* C12: in every state reached when a call of ensureData has returned, each
\* folder's known count is the number of its immediate child folders that are
\* not stale and its unknown count the number of those that are stale (so
\* neither is negative and they add up to the number of child folders).  The
\* code has two staleness tests that differ at LastUpdate = tooOld; the
\* counts may be exact under either.
StaleForRebuild(lu) == lu < tooOld
StaleForEnsureData(lu) == ~(lu > tooOld)
CountStale(hp, h, Stale(_)) ==
  Cardinality({i \in 1..Len(hp[h].Folders) : Stale(hp[hp[h].Folders[i]].LastUpdate)})
TalliesExact(hp, Stale(_)) ==
  \A h \in 1..Len(hp) :
    /\ hp[h].unknown = CountStale(hp, h, Stale)
    /\ hp[h].known = Len(hp[h].Folders) - CountStale(hp, h, Stale)
C12_TalliesExact ==
  ((\E g \in 1..MaxRequests : Returned(g)) \/ StartupReturned) =>
     \/ TalliesExact(heap, StaleForRebuild)
     \/ TalliesExact(heap, StaleForEnsureData)

\* the folders of the subtree of f, f included
RECURSIVE Subtree(_, _)
Subtree(hp, f) ==
  {f} \cup UNION {Subtree(hp, hp[f].Folders[i]) : i \in 1..Len(hp[f].Folders)}

\* C13: running rebuild a second time on the same folder, with nothing
\* changed in between, leaves size, known, unknown, the name indices, the
\* parent back-reference and the path of every folder of the subtree as the
\* first run left them.
C13_RebuildIdempotent ==
  (fn.name = "rebuild" /\ fn.runs = 2) =>
     /\ Len(heap) = Len(fn.first)
     /\ \A h \in Subtree(heap, fn.f) :
          /\ heap[h].size = fn.first[h].size
          /\ heap[h].known = fn.first[h].known
          /\ heap[h].unknown = fn.first[h].unknown
          /\ heap[h].folderIdx = fn.first[h].folderIdx
          /\ heap[h].fileIdx = fn.first[h].fileIdx
          /\ heap[h].parent = fn.first[h].parent
          /\ heap[h].path = fn.first[h].path
\* rebuild ran twice on a folder that has files, child folders and
\* grandchildren, and whose size is positive
C13_Witness ==
  /\ fn.name = "rebuild" /\ fn.runs = 2
  /\ heap[fn.f].Files # << >> /\ heap[fn.f].size > 0
  /\ \E i \in 1..Len(heap[fn.f].Folders) : heap[heap[fn.f].Folders[i]].Folders # << >>

\* folder x of tree a and folder y of tree b have the same persisted fields,
\* the same files and, in the same order, children of which this holds too
RECURSIVE PersistedSame(_, _, _, _)
PersistedSame(a, x, b, y) ==
  /\ a[x].ID = b[y].ID /\ a[x].Name = b[y].Name
  /\ a[x].Date = b[y].Date /\ a[x].LastUpdate = b[y].LastUpdate
  /\ Len(a[x].Files) = Len(b[y].Files)
  /\ \A i \in 1..Len(a[x].Files) :
       /\ a[x].Files[i].ID = b[y].Files[i].ID /\ a[x].Files[i].Name = b[y].Files[i].Name
       /\ a[x].Files[i].Size = b[y].Files[i].Size /\ a[x].Files[i].Date = b[y].Files[i].Date
  /\ Len(a[x].Folders) = Len(b[y].Folders)
  /\ \A i \in 1..Len(a[x].Folders) : PersistedSame(a, a[x].Folders[i], b, b[y].Folders[i])

\* every node of a snapshot document has the persisted fields and no other
RECURSIVE OnlyPersisted(_)
OnlyPersisted(doc) ==
  /\ DOMAIN doc = {"ID", "Name", "Folders", "Files", "Date", "LastUpdate"}
  /\ \A i \in 1..Len(doc.Files) : DOMAIN doc.Files[i] = {"ID", "Name", "Ext", "Size", "Date"}
  /\ \A i \in 1..Len(doc.Folders) : OnlyPersisted(doc.Folders[i])

\* C14: load(save(tree)) gives a tree with the same child structure in the
\* same order and the same persisted fields of every folder and file, and the
\* snapshot holds no derived field.
C14_SnapshotRoundTrip ==
  fn.name = "load" =>
     /\ PersistedSame(fn.first, Root, heap, Root)
     /\ Cardinality(Subtree(heap, Root)) = Cardinality(Subtree(fn.first, Root))
     /\ Len(heap) = Cardinality(Subtree(heap, Root))
     /\ disk.exists /\ OnlyPersisted(disk.doc)
\* a tree with two children, a grandchild and files was saved after a rebuild
\* had filled its derived fields, and loaded
C14_Witness ==
  /\ fn.name = "load"
  /\ Len(fn.first[Root].Folders) >= 2 /\ fn.first[Root].size > 0
  /\ ~fn.first[Root].folderIdx.nil
  /\ \E i \in 1..Len(heap[Root].Folders) :
        /\ heap[heap[Root].Folders[i]].Folders # << >>
        /\ heap[heap[Root].Folders[i]].Files # << >>

\* C15: the root's path is "/", and every folder that attachChild has
\* attached has the path of its parent joined with its own name, so that
\* sibling folders with different names have different paths.
C15_PathDerivation ==
  /\ heap[Root].path = RootPath
  /\ \A h \in 1..Len(heap) :
       heap[h].parent # NilFolder =>
          heap[h].path = Join(heap[heap[h].parent].path, heap[h].Name)
  /\ \A h1, h2 \in 1..Len(heap) :
       (/\ heap[h1].parent # NilFolder /\ heap[h1].parent = heap[h2].parent
        /\ heap[h1].Name # heap[h2].Name) => heap[h1].path # heap[h2].path

\* C16: a missing snapshot file, and one that exists but cannot be read or is
\* malformed, both make the program start from an empty root: it does not
\* stop with the error of load.
C16_SnapshotProblemsStartEmpty ==
  /\ panicInfo.why # "load error"
  /\ (phase = "startup" /\ (~disk.exists \/ LoadFails(disk))) =>
        heap = <<[Folder("", "", 0, 0, NoSave) EXCEPT !.path = RootPath]>>

\* C17: after rebuild has run on a folder whose child folders have pairwise
\* distinct names and whose files have pairwise distinct names, the folder
\* index holds exactly one entry per child folder, from its name to the child,
\* and the file index exactly one entry per file, from its name to the file.
DistinctNames(hp, h) ==
  /\ \A i, j \in 1..Len(hp[h].Folders) :
       i # j => hp[hp[h].Folders[i]].Name # hp[hp[h].Folders[j]].Name
  /\ \A i, j \in 1..Len(hp[h].Files) : i # j => hp[h].Files[i].Name # hp[h].Files[j].Name
C17_NameIndices ==
  (fn.name = "rebuild" /\ DistinctNames(heap, fn.f)) =>
     /\ ~heap[fn.f].folderIdx.nil /\ ~heap[fn.f].fileIdx.nil
     /\ heap[fn.f].folderIdx.kv =
          {<<heap[heap[fn.f].Folders[i]].Name, heap[fn.f].Folders[i]>> :
             i \in 1..Len(heap[fn.f].Folders)}
     /\ heap[fn.f].fileIdx.kv =
          {<<heap[fn.f].Files[i].Name, heap[fn.f].Files[i]>> : i \in 1..Len(heap[fn.f].Files)}

\* the integer part of 10 * (k * 1024 + r) / (u * 1024), for c the integer
\* part of 10 * r / 1024 and u a power of 1024
RECURSIVE FloorTenths(_, _, _)
FloorTenths(k, c, u) ==
  IF u = 1 THEN 10 * k + c
  ELSE FloorTenths(k \div 1024, (10 * (k % 1024) + c) \div 1024, u \div 1024)

\* C18: formatSize(0) is the empty string; for 0 < n < 1024 it is n followed
\* by "b"; for n >= 1024 it is n divided by the unit, with one decimal,
\* followed by kb for n in [1024, 1024^2), mb for [1024^2, 1024^3), gb for
\* [1024^3, 1024^4) and tb above (1536 gives "1.5kb").  The decimal may be
\* cut or rounded: the rendered tenths are within one of the exact quotient.
C18_FormatSize ==
  fn.name = "formatSize" =>
     LET i == fn.i
         res == fn.result
         unitK == IF i.k < KB THEN 1 ELSE IF i.k < MB THEN KB ELSE IF i.k < GB THEN MB ELSE GB
         unit == IF i.k < KB THEN "kb" ELSE IF i.k < MB THEN "mb"
                 ELSE IF i.k < GB THEN "gb" ELSE "tb"
         tenths == FloorTenths(i.k, (10 * i.r) \div 1024, unitK)
     IN  IF i.k = 0 /\ i.r = 0 THEN res = EmptyText
         ELSE IF i.k = 0 THEN res = Text(i.r, -1, "b")
         ELSE /\ res.unit = unit
              /\ res.tenth \in 0..9
              /\ res.whole * 10 + res.tenth \in {tenths, tenths + 1}

\* startApp has set root.save
HookInstalled ==
  \/ phase \in {"startupCall", "running"}
  \/ phase = "panicked" /\ panicInfo.why # "load error"

\* C19: once startApp has installed the root's save function, every folder
\* of the tree, loaded from the snapshot or created by a merge at any depth,
\* has the save function that saves the whole tree from the root, and
\* ensureData never stops at "Reached a folder without a save function".
C19_SaveHook ==
  /\ HookInstalled => \A h \in 1..Len(heap) : heap[h].save = SaveRoot
  /\ panicInfo.why # "no save function"
\* a deep refresh has saved through a folder two levels below the folder it
\* started at: a folder that a merge of this run created
C19_Witness ==
  \E g \in 1..MaxRequests :
    /\ Len(stack[g]) >= 2 /\ Top(g).pc = "deepInit"
    /\ saves >= 3 /\ Len(Ancestors(heap, Top(g).f)) >= 2

\* following parent back-references from h reaches the root in at most n steps
RECURSIVE ReachesRoot(_, _, _)
ReachesRoot(hp, h, n) ==
  IF h = Root THEN TRUE
  ELSE IF n = 0 \/ hp[h].parent = NilFolder THEN FALSE
  ELSE ReachesRoot(hp, hp[h].parent, n - 1)
RootedTree(hp) ==
  /\ hp[Root].parent = NilFolder
  /\ \A h \in 2..Len(hp) :
       /\ hp[h].parent # NilFolder
       /\ \A p \in 1..Len(hp) : InSeq(h, hp[p].Folders) <=> p = hp[h].parent
       /\ ReachesRoot(hp, h, Len(hp))

Count(s, x) == Cardinality({k \in 1..Len(s) : s[k] = x})

\* C21: in a deep refresh the children of a node are taken in list order; for
\* each of them ensureData on the child returns first, then rebuild runs on
\* the node, then the progress callback is called with the node.  The callback
\* is called once per child folder, cache hits included, and at each call the
\* size equation holds for every folder of the node's subtree.
C21_Frames ==
  \A g \in 1..MaxRequests : \A k \in 1..Len(stack[g]) :
    LET fr == stack[g][k] IN
    /\ (fr.pc \in {"loop", "afterChild"}) =>
          /\ fr.n = Len(heap[fr.f].Folders)
          /\ Count(gor[g].updates, fr.f) = fr.i - 1
    /\ (fr.pc = "afterChild" /\ k < Len(stack[g])) =>
          stack[g][k + 1].f = heap[fr.f].Folders[fr.i]
    /\ (fr.pc \in {"deepEnd", "propagate"} /\ fr.goDeep) =>
          Count(gor[g].updates, fr.f) = Len(heap[fr.f].Folders)
    /\ (k < Len(stack[g])) => fr.pc = "afterChild"
C21_CallbackStep ==
  \A g \in 1..MaxRequests :
    gor'[g].updates # gor[g].updates =>
      LET fr == Top(g) IN
      /\ fr.pc = "afterChild"
      /\ gor'[g].updates = Append(gor[g].updates, fr.f)
      /\ \A h \in Subtree(heap', fr.f) : SizeOk(heap', h)
      /\ stack'[g] = SetTop(stack[g], [fr EXCEPT !.pc = "loop", !.i = @ + 1])
C21_DeepObservability == []C21_Frames /\ [][C21_CallbackStep]_vars
\* a deep refresh has returned after it called the callback for two children
\* of a folder with files, one of which was a cache hit
C21_Witness ==
  \E g \in 1..MaxRequests :
    /\ Returned(g) /\ gor[g].deep
    /\ Count(gor[g].updates, gor[g].folder) >= 2
    /\ heap[gor[g].folder].Files # << >>
    /\ \E i \in 1..Len(heap[gor[g].folder].Folders) :
          LET c == heap[gor[g].folder].Folders[i] IN
          heap[c].LastUpdate > tooOld /\ heap[c].LastUpdate < StartTime

\* every call of the Lister that goroutine g has made so far succeeded
AllListed(g) ==
  \A k \in (gor[g].calls0 + 1)..Len(calls) :
    ~ListerFailed(calls[k].out) /\ ~HasUnknownType(calls[k].out.lines)

\* C22: when a deep ensureData, all of whose Lister calls succeeded, has
\* returned, every folder of the subtree of the folder it was called on, old
\* or newly found, has a LastUpdate later than the cutoff.
C22_DeepLeavesFresh ==
  \A g \in 1..MaxRequests :
    (Returned(g) /\ gor[g].deep /\ AllListed(g)) =>
       \A h \in Subtree(heap, gor[g].folder) : heap[h].LastUpdate > tooOld

\* s is a prefix of t
IsPrefix(s, t) == Len(s) <= Len(t) /\ \A k \in 1..Len(s) : s[k] = t[k]

\* C23: no step of the program, in a call of ensureData that succeeds or in
\* one that fails, removes a folder or a file from the tree or moves it to
\* another parent, and no folder's LastUpdate decreases.
C23_Step ==
  /\ Len(heap') >= Len(heap)
  /\ \A h \in 1..Len(heap) :
       /\ heap'[h].ID = heap[h].ID /\ heap'[h].Name = heap[h].Name
       /\ IsPrefix(heap[h].Folders, heap'[h].Folders)
       /\ IsPrefix(heap[h].Files, heap'[h].Files)
       /\ heap'[h].LastUpdate >= heap[h].LastUpdate
C23_TreeOnlyGrows == [][C23_Step]_vars
\* a folder loaded with a child has been fetched again: it has its old child,
\* new ones after it, and a later LastUpdate
C23_Witness ==
  \E h \in 1..Len(heap) :
    /\ Len(heap[h].Folders) >= 2
    /\ heap[h].LastUpdate >= StartTime
    /\ heap[heap[h].Folders[1]].LastUpdate \in 1..(StartTime - 1)
    /\ heap[heap[h].Folders[2]].LastUpdate = 0

\* C24: a refresh started by 'l' or 'x' runs with force = true exactly when
\* the key handled immediately before that key was 'f' (after f, l, a further
\* 'l' runs without force), and the force value it runs with is the one that
\* was in effect when its key was handled.
C24_ForceOneKeyPrefix ==
  \A g \in DOMAIN gor :
    gor[g].pc \in {"ensure", "done"} =>
       /\ gor[g].force = gor[g].prevF
       /\ gor[g].force = gor[g].force0

\* C25: a refresh started by 'l' or 'x' was started with the cursor on a row
\* that displays a child folder, and it runs ensureData on the folder that
\* row displays; no refresh is started from the ".." row or from a file row.
C25_RowToFolder ==
  \A g \in DOMAIN gor :
    gor[g].pc # "unborn" =>
       /\ gor[g].row.kind = "folder"
       /\ gor[g].row.folder = gor[g].folder

\* C26: after rebuild, every folder's unknown count is the number of its
\* child folders on which a non-forced ensureData would call the Lister, and
\* its known count the number of those on which it would be a cache hit,
\* whatever the children's LastUpdate, the cutoff itself included.
WouldFetch(hp, h) ==
  Cardinality({i \in 1..Len(hp[h].Folders) :
                 ~CacheHit(hp[hp[h].Folders[i]].LastUpdate, FALSE)})
C26_OneStalenessPredicate ==
  fn.name = "rebuild" =>
     \A h \in Subtree(heap, fn.f) :
       /\ heap[h].unknown = WouldFetch(heap, h)
       /\ heap[h].known = Len(heap[h].Folders) - WouldFetch(heap, h)

\* C27: as long as no refresh has run with force, no Folder object has made
\* two calls of the Lister, and no ensureData is past its staleness check
\* (about to call the Lister) on a Folder object that has already made one:
\* every later ensureData on a folder fetched in this run is a cache hit.
NoForce ==
  /\ \A g \in DOMAIN gor : ~gor[g].force
  /\ \A g \in DOMAIN stack : \A k \in 1..Len(stack[g]) : ~stack[g][k].forceUpdate
Fetched(h) == \E k \in 1..Len(calls) : calls[k].f = h
C27_OneUnforcedFetch ==
  NoForce =>
     /\ \A i, j \in 1..Len(calls) : i # j => calls[i].f # calls[j].f
     /\ \A g \in DOMAIN stack : \A k \in 1..Len(stack[g]) :
          stack[g][k].pc = "getFiles" => ~Fetched(stack[g][k].f)
\* a non-forced deep refresh has fetched a folder and is back in its loop
\* over the children after the ensureData on a child that had been fetched
\* by an earlier refresh of this run: that call made no call of the Lister
C27_Witness ==
  /\ NoForce
  /\ \E g \in DOMAIN gor :
       /\ gor[g].pc = "ensure" /\ gor[g].deep
       /\ Len(stack[g]) = 1 /\ Top(g).pc = "loop" /\ Top(g).i > 1
       /\ Fetched(Top(g).f)
       /\ LET child == heap[Top(g).f].Folders[Top(g).i - 1] IN
            /\ \E k \in 1..gor[g].calls0 : calls[k].f = child
            /\ \A k \in (gor[g].calls0 + 1)..Len(calls) : calls[k].f # child

====
